---------------------------- MODULE Spec2Model ----------------------------
(***************************************************************************)
(* Model of src/trade_reconciliation.py: the position matcher              *)
(* (get_hl_closed_trades), the ledger writer (backfill_trades) and the     *)
(* entry points (reconcile_all_users, reconcile_single_user).              *)
(*                                                                         *)
(* Specifications, all over the same variables and actions: SpecMatch,     *)
(* SpecOrder, SpecDeep (one call of the matcher), SpecWrite (serial runs   *)
(* of the writer), SpecRace (two concurrent runs of the writer), Spec and  *)
(* FairSpec (the batch run), SpecSingle (the single-account run).          *)
(*                                                                         *)
(* Numbers.  The program computes with Python floats; the model computes   *)
(* with exact rationals [n, d] (d > 0, lowest terms), so rounding is not   *)
(* modelled.  Sizes and prices of fills are small naturals.                *)
(*                                                                         *)
(* Time.  One model time unit is 10^4 raw timestamp units (10 s of a       *)
(* millisecond timestamp), so that millisecond timestamps of today fit the *)
(* model checker's integers.  Datetimes are whole seconds.                 *)
(***************************************************************************)
EXTENDS Integers, Sequences, FiniteSets, TLC

VARIABLES
    m,          \* the frame of get_hl_closed_trades (one call at a time)
    w,          \* the frames of backfill_trades, one per caller
    trades,     \* the trades table: the rows in insertion order
    o,          \* the frame of reconcile_all_users / reconcile_single_user
    hist        \* history: what each backfill_trades iteration did

vars == <<m, w, trades, o, hist>>

(***************************************************************************)
(* Bounds of the model.                                                    *)
(***************************************************************************)
MaxFills == 3
MaxTrips == 2

(***************************************************************************)
(* Exact rationals.                                                        *)
(***************************************************************************)
Abs(x) == IF x < 0 THEN -x ELSE x

RECURSIVE Gcd(_, _)
Gcd(a, b) == IF b = 0 THEN a ELSE Gcd(b, a % b)

Rat(n, d) ==
    LET g == Gcd(Abs(n), Abs(d))
        s == IF d < 0 THEN -1 ELSE 1
    IN  [n |-> (s * n) \div g, d |-> (s * d) \div g]

RInt(k) == [n |-> k, d |-> 1]
RAdd(a, b) == Rat(a.n * b.d + b.n * a.d, a.d * b.d)
RSub(a, b) == Rat(a.n * b.d - b.n * a.d, a.d * b.d)
RMul(a, b) == Rat(a.n * b.n, a.d * b.d)
\* a / b; the caller establishes b # 0 (Python raises ZeroDivisionError)
RDiv(a, b) == Rat(a.n * b.d, a.d * b.n)
RIsZero(a) == a.n = 0
RPos(a) == a.n > 0
RLeq(a, b) == a.n * b.d <= b.n * a.d

RECURSIVE RSum(_)
RSum(s) == IF s = <<>> THEN RInt(0) ELSE RAdd(Head(s), RSum(Tail(s)))

Range(s) == {s[k] : k \in 1..Len(s)}
Min(a, b) == IF a <= b THEN a ELSE b

(***************************************************************************)
(* Time.                                                                   *)
(***************************************************************************)
\* datetime.utcnow() as a millisecond timestamp, in model units
NowTs == 170259200
since_days == 30
\* since_ts of get_hl_closed_trades: 8640 model units are one day
SinceTs == NowTs - since_days * 8640
\* 1e10 raw units: above it a timestamp is read as milliseconds
MsThreshold == 1000000
\* the tolerance of the existence check, in seconds
DedupSeconds == 60

\* datetime.utcfromtimestamp(t / 1000) if t > 1e10 else
\* datetime.utcfromtimestamp(t), as whole seconds since the epoch
ToDatetime(t) == IF t > MsThreshold THEN t * 10 ELSE t * 10000


(***************************************************************************)
(* Fills as the venue reports them: coin, side, sz, px, time, fee.  A      *)
(* missing key reads as its default ('' or 0).                             *)
(***************************************************************************)
\* str.lower() on the side tokens the model uses
Lower(s) == CASE s = "B" -> "b" [] s = "A" -> "a" [] s = "X" -> "x" [] OTHER -> s

BuyTokens == {"b", "buy", "long"}
SellTokens == {"a", "sell", "short"}

\* lines 68-72: the side token, lowered and mapped onto buy / sell
NormSide(raw) ==
    LET s == Lower(raw)
    IN  IF s \in BuyTokens THEN "buy"
        ELSE IF s \in SellTokens THEN "sell"
        ELSE s

\* line 59 without the test on since_ts
RecentFillsUnfiltered(fs) == fs

\* line 59: the fills inside the lookback window, in the order received
RECURSIVE RecentFills(_)
RecentFills(fs) ==
    IF fs = <<>> THEN <<>>
    ELSE IF Head(fs).time >= SinceTs
         THEN <<Head(fs)>> \o RecentFills(Tail(fs))
         ELSE RecentFills(Tail(fs))

\* sorted() inserts each element after the elements whose key is <= its own
RECURSIVE InsertByTime(_, _)
InsertByTime(f, s) ==
    IF s = <<>> THEN <<f>>
    ELSE IF Head(s).time <= f.time
         THEN <<Head(s)>> \o InsertByTime(f, Tail(s))
         ELSE <<f>> \o s

\* line 66 without the sort
SortedNoSort(fs) == fs

\* line 66: sorted(recent_fills, key=time), a stable ascending sort
RECURSIVE SortedByTime(_)
SortedByTime(fs) ==
    IF fs = <<>> THEN <<>>
    ELSE InsertByTime(fs[Len(fs)], SortedByTime(SubSeq(fs, 1, Len(fs) - 1)))

(***************************************************************************)
(* Positions (lines 82-126).                                               *)
(***************************************************************************)
\* lines 83, 126: a flat position; side None is "none"
FlatPos == [entries |-> <<>>, side |-> "none", total_amount |-> 0,
            avg_entry |-> RInt(0)]

\* lines 82-85: positions[coin], created flat when the coin is new
WithCoin(positions, coin) ==
    IF coin \in DOMAIN positions THEN positions ELSE positions @@ (coin :> FlatPos)

\* lines 87-91
IsOpening(pos, side) ==
    \/ pos.total_amount = 0
    \/ (pos.side = "long" /\ side = "buy")
    \/ (pos.side = "short" /\ side = "sell")

\* line 98 with a plain average of the two prices in place of the weights
AvgEntryUnweighted(avg_entry, total_amount, price, amount) ==
    IF total_amount = 0 THEN RInt(price)
    ELSE RDiv(RAdd(avg_entry, RInt(price)), RInt(2))

\* lines 96-98: the running volume-weighted average entry price
AvgEntry(avg_entry, total_amount, price, amount) ==
    LET total_cost == RAdd(RMul(avg_entry, RInt(total_amount)), RInt(price * amount))
        total == total_amount + amount
    IN  IF total > 0 THEN RDiv(total_cost, RInt(total)) ELSE RInt(0)

\* lines 94-99: the position after an opening fill
OpenedPos(pos, side, amount, price, timestamp) ==
    [entries |-> Append(pos.entries, [timestamp |-> timestamp, price |-> price,
                                      amount |-> amount, side |-> side]),
     side |-> IF pos.total_amount = 0
              THEN (IF side = "buy" THEN "long" ELSE "short")
              ELSE pos.side,
     total_amount |-> pos.total_amount + amount,
     avg_entry |-> AvgEntry(pos.avg_entry, pos.total_amount, price, amount)]

\* line 102 without the cap
CloseAmountUncapped(amount, total_amount) == amount

\* line 102
CloseAmount(amount, total_amount) == Min(amount, total_amount)

\* lines 106-109 with the long formula on both sides
PnlLongOnly(side, entry_price, exit_price, close_amount) ==
    RMul(RSub(RInt(exit_price), entry_price), RInt(close_amount))

\* lines 106-109
Pnl(side, entry_price, exit_price, close_amount) ==
    IF side = "long"
    THEN RMul(RSub(RInt(exit_price), entry_price), RInt(close_amount))
    ELSE RMul(RSub(entry_price, RInt(exit_price)), RInt(close_amount))

\* line 111: the division that raises ZeroDivisionError
PctDividesByZero(side, entry_price, exit_price) ==
    IF side = "long" THEN RIsZero(entry_price) ELSE exit_price = 0

\* line 111
PnlPct(side, entry_price, exit_price) ==
    IF side = "long"
    THEN RMul(RSub(RDiv(RInt(exit_price), entry_price), RInt(1)), RInt(100))
    ELSE RMul(RSub(RDiv(entry_price, RInt(exit_price)), RInt(1)), RInt(100))

\* line 117 with the latest entry in place of the first
EntryTimeLatest(entries, timestamp) ==
    IF entries # <<>> THEN entries[Len(entries)].timestamp ELSE timestamp

\* line 117: the timestamp of the first entry of the position
EntryTime(entries, timestamp) ==
    IF entries # <<>> THEN entries[1].timestamp ELSE timestamp

\* lines 102-119: the round trip a closing fill appends
RoundTrip(coin, pos, amount, price, timestamp, fee) ==
    LET close_amount == CloseAmount(amount, pos.total_amount)
    IN  [symbol |-> coin, side |-> pos.side,
         entry_price |-> pos.avg_entry, exit_price |-> price,
         quantity |-> close_amount,
         pnl_usd |-> Pnl(pos.side, pos.avg_entry, price, close_amount),
         pnl_pct |-> PnlPct(pos.side, pos.avg_entry, price),
         entry_time |-> EntryTime(pos.entries, timestamp),
         exit_time |-> timestamp, fee |-> fee]

\* lines 122-126 without the reset of lines 125-126
ClosedPosNoReset(pos, amount) ==
    [pos EXCEPT !.total_amount = @ - CloseAmount(amount, pos.total_amount)]

\* lines 124-126: the position after a closing fill
ClosedPos(pos, amount) ==
    LET left == pos.total_amount - CloseAmount(amount, pos.total_amount)
    IN  IF left <= 0 THEN FlatPos ELSE [pos EXCEPT !.total_amount = left]


(***************************************************************************)
(* backfill_trades (lines 137-184).  Each caller p has its own frame w[p]; *)
(* the two awaits (the existence check of line 156, the insert of line     *)
(* 166) are separate steps.  w[p].pc: "idle", "check" (round trip i is     *)
(* next, lines 149-164), "insert" (line 166 pending), "returned".          *)
(***************************************************************************)
Callers == {1, 2}

WIdle == [pc |-> "idle", user_id |-> 0, round_trips |-> <<>>, fee_rate |-> RInt(0),
          i |-> 0, inserted |-> 0, total_pnl |-> RInt(0), total_fees |-> RInt(0),
          fee_amount |-> RInt(0), entry_time |-> 0, exit_time |-> 0,
          result |-> <<>>]

OIdle == [pc |-> "idle", users |-> <<>>, ui |-> 0, wallet_address |-> ""]

\* config.FEE_TIERS: the fee tiers and their rates (fractions of notional)
FEE_TIERS == ("standard" :> [rate |-> Rat(1, 10)]) @@ ("vip" :> [rate |-> Rat(1, 20)])

\* lines 141-142: FEE_TIERS.get(fee_tier, FEE_TIERS['standard'])['rate']
FeeRate(fee_tier) ==
    IF fee_tier \in DOMAIN FEE_TIERS THEN FEE_TIERS[fee_tier].rate
    ELSE FEE_TIERS["standard"].rate

\* lines 150-151 charging the fee on every close
FeeAmountAlways(rt, fee_rate) == RMul(RInt(rt.quantity * rt.exit_price), fee_rate)

\* lines 150-151: position_size * fee_rate on a profitable close, else 0
FeeAmount(rt, fee_rate) ==
    IF RPos(rt.pnl_usd) THEN RMul(RInt(rt.quantity * rt.exit_price), fee_rate)
    ELSE RInt(0)

\* lines 157-160 with equal times in place of the 60 s tolerance
RowMatchesExact(row, user_id, symbol, entry_time, exit_time) ==
    /\ row.user_id = user_id
    /\ row.symbol = symbol
    /\ row.opened_at = entry_time
    /\ row.closed_at = exit_time

\* lines 157-160: the WHERE clause of the existence check, on one row
RowMatches(row, user_id, symbol, entry_time, exit_time) ==
    /\ row.user_id = user_id
    /\ row.symbol = symbol
    /\ Abs(row.opened_at - entry_time) < DedupSeconds
    /\ Abs(row.closed_at - exit_time) < DedupSeconds

\* lines 156-161 with a query that never finds a row
ExistsCountNone(table, user_id, symbol, entry_time, exit_time) == 0

\* lines 156-161: SELECT COUNT(*)
ExistsCount(table, user_id, symbol, entry_time, exit_time) ==
    Cardinality({k \in 1..Len(table) :
                    RowMatches(table[k], user_id, symbol, entry_time, exit_time)})

\* lines 166-176: the row the INSERT appends
TradeRow(user_id, rt, fee_amount, entry_time, exit_time) ==
    [user_id |-> user_id, symbol |-> rt.symbol, hl_coin |-> rt.symbol,
     side |-> rt.side, entry_price |-> rt.entry_price, exit_price |-> rt.exit_price,
     quantity |-> rt.quantity, leverage |-> 1, profit_usd |-> rt.pnl_usd,
     profit_percent |-> rt.pnl_pct, fee_usd |-> fee_amount,
     opened_at |-> entry_time, closed_at |-> exit_time, source |-> "reconciliation"]

\* the number of backfill_trades calls made so far (history)
CallsSoFar == Cardinality({k \in 1..Len(hist) : hist[k].what = "call"})

\* the history entry of call number c
CallEvent(c) == hist[CHOOSE k \in 1..Len(hist) : hist[k].what = "call" /\ hist[k].call = c]

\* an entry of the history: what one iteration did, and the table's length before
Event(p, what, i, rt) ==
    [what |-> what, caller |-> p, call |-> CallsSoFar, i |-> i, rt |-> rt,
     rows |-> Len(trades), tier |-> "", user |-> w[p].user_id]

\* lines 137-146: the call
BackfillCall(p, user_id, round_trips, fee_tier) ==
    /\ w' = [w EXCEPT ![p] = [WIdle EXCEPT !.pc = "check", !.user_id = user_id,
                                 !.round_trips = round_trips,
                                 !.fee_rate = FeeRate(fee_tier), !.i = 1]]
    /\ hist' = Append(hist, [what |-> "call", caller |-> p, call |-> CallsSoFar + 1,
                             i |-> 0, rt |-> round_trips, rows |-> Len(trades),
                             tier |-> fee_tier, user |-> user_id])

Rt(p) == w[p].round_trips[w[p].i]
AtTrip(p, pc) == w[p].pc = pc /\ w[p].i <= Len(w[p].round_trips)

\* line 181 leaving the loop on an error
AfterErrorAbort(frame) == [frame EXCEPT !.pc = "check", !.i = Len(frame.round_trips) + 1]

\* lines 181-182: the error is printed and the loop goes on
AfterError(frame) == [frame EXCEPT !.pc = "check", !.i = @ + 1]

\* line 163 as exists > 1
IsDuplicateOffByOne(exists) == exists > 1

\* line 163
IsDuplicate(exists) == exists > 0

\* lines 178-180 moved before the INSERT: the row is counted, not yet written
AfterInsertFailedCounted(frame) ==
    [frame EXCEPT !.pc = "check", !.i = @ + 1, !.inserted = @ + 1,
                  !.total_pnl = RAdd(@, frame.round_trips[frame.i].pnl_usd),
                  !.total_fees = RAdd(@, frame.fee_amount)]

\* lines 166-182 when the INSERT raises: nothing is counted
AfterInsertFailed(frame) == AfterError(frame)

\* lines 149-165: fee, datetimes, existence check: a duplicate is skipped
CheckExists(p) ==
    /\ AtTrip(p, "check")
    /\ LET rt == Rt(p)
           fee_amount == FeeAmount(rt, w[p].fee_rate)
           entry_time == ToDatetime(rt.entry_time)
           exit_time == ToDatetime(rt.exit_time)
           exists == ExistsCount(trades, w[p].user_id, rt.symbol, entry_time, exit_time)
       IN  IF IsDuplicate(exists)
           THEN /\ w' = [w EXCEPT ![p].i = @ + 1]
                /\ hist' = Append(hist, Event(p, "duplicate", w[p].i, rt))
           ELSE /\ w' = [w EXCEPT ![p].pc = "insert", ![p].fee_amount = fee_amount,
                                  ![p].entry_time = entry_time,
                                  ![p].exit_time = exit_time]
                /\ hist' = hist
    /\ UNCHANGED <<m, trades, o>>

\* lines 150-161 raise (the query fails): lines 181-182
CheckFails(p) ==
    /\ AtTrip(p, "check")
    /\ w' = [w EXCEPT ![p] = AfterError(w[p])]
    /\ hist' = Append(hist, Event(p, "check_failed", w[p].i, Rt(p)))
    /\ UNCHANGED <<m, trades, o>>

\* lines 166-180: the INSERT succeeds and the row is counted
InsertRow(p) ==
    /\ AtTrip(p, "insert")
    /\ trades' = Append(trades, TradeRow(w[p].user_id, Rt(p), w[p].fee_amount,
                                         w[p].entry_time, w[p].exit_time))
    /\ w' = [w EXCEPT ![p].pc = "check", ![p].i = @ + 1, ![p].inserted = @ + 1,
                      ![p].total_pnl = RAdd(@, Rt(p).pnl_usd),
                      ![p].total_fees = RAdd(@, w[p].fee_amount)]
    /\ hist' = Append(hist, Event(p, "inserted", w[p].i, Rt(p)))
    /\ UNCHANGED <<m, o>>

\* line 166 raises (e.g. a constraint violation): lines 181-182
InsertFails(p) ==
    /\ AtTrip(p, "insert")
    /\ w' = [w EXCEPT ![p] = AfterInsertFailed(w[p])]
    /\ hist' = Append(hist, Event(p, "insert_failed", w[p].i, Rt(p)))
    /\ UNCHANGED <<m, trades, o>>

\* line 184
BackfillReturn(p) ==
    /\ w[p].pc = "check"
    /\ w[p].i > Len(w[p].round_trips)
    /\ w' = [w EXCEPT ![p].pc = "returned",
                      ![p].result = <<w[p].inserted, w[p].total_pnl, w[p].total_fees>>]
    /\ UNCHANGED <<m, trades, o, hist>>

(***************************************************************************)
(* get_hl_closed_trades (lines 49-134), one action per step of the call.   *)
(* m.pc: "idle" (not called), "fetch" (line 58 pending), "loop" (the for   *)
(* of line 66 at fill m.fi), "returned".                                   *)
(***************************************************************************)
MIdle == [pc |-> "idle", all_fills |-> <<>>, fills |-> <<>>, fi |-> 0,
          positions |-> <<>>, round_trips |-> <<>>, result |-> <<>>]

\* the fill of the current iteration and the locals of lines 67-77
CurFill == m.fills[m.fi]
CurSide == NormSide(CurFill.side)
CurPositions == WithCoin(m.positions, CurFill.coin)
CurPos == CurPositions[CurFill.coin]
InLoop == m.pc = "loop" /\ m.fi <= Len(m.fills)
Degenerate(fill) == fill.coin = "" \/ fill.sz = 0

\* lines 130-134: what the except clause returns
ErrorResult(round_trips) == <<>>

\* lines 55-58 raise: the except clause of line 130 returns []
FetchFails ==
    /\ m.pc = "fetch"
    /\ m' = [m EXCEPT !.pc = "returned", !.result = ErrorResult(<<>>)]
    /\ hist' = Append(hist, [what |-> "fetch_failed", caller |-> 0, call |-> 0, i |-> 0,
                             rt |-> <<>>, rows |-> Len(trades), tier |-> "",
                             user |-> IF o.pc = "trades" THEN o.users[o.ui].id ELSE 0])
    /\ UNCHANGED <<w, trades, o>>

\* lines 58-66: the venue answers fs; filter, sort, start the loop
FetchFills(inputs) ==
    /\ m.pc = "fetch"
    /\ \E fs \in inputs :
          m' = [m EXCEPT !.pc = "loop", !.all_fills = fs,
                         !.fills = SortedByTime(RecentFills(fs)), !.fi = 1,
                         !.positions = <<>>, !.round_trips = <<>>]
    /\ UNCHANGED <<w, trades, o, hist>>

\* lines 79-80: continue
MatchSkip ==
    /\ InLoop
    /\ Degenerate(CurFill)
    /\ m' = [m EXCEPT !.fi = @ + 1]
    /\ UNCHANGED <<w, trades, o, hist>>

\* lines 93-100: an opening fill
MatchOpen ==
    /\ InLoop
    /\ ~Degenerate(CurFill)
    /\ IsOpening(CurPos, CurSide)
    /\ m' = [m EXCEPT
               !.positions = [CurPositions EXCEPT ![CurFill.coin] =
                   OpenedPos(CurPos, CurSide, CurFill.sz, CurFill.px, CurFill.time)],
               !.fi = @ + 1]
    /\ UNCHANGED <<w, trades, o, hist>>

\* lines 101-126: a closing fill
MatchClose ==
    /\ InLoop
    /\ ~Degenerate(CurFill)
    /\ ~IsOpening(CurPos, CurSide)
    /\ ~PctDividesByZero(CurPos.side, CurPos.avg_entry, CurFill.px)
    /\ m' = [m EXCEPT
               !.round_trips = Append(@, RoundTrip(CurFill.coin, CurPos, CurFill.sz,
                                       CurFill.px, CurFill.time, Abs(CurFill.fee))),
               !.positions = [CurPositions EXCEPT ![CurFill.coin] =
                                 ClosedPos(CurPos, CurFill.sz)],
               !.fi = @ + 1]
    /\ UNCHANGED <<w, trades, o, hist>>

\* line 111 raises ZeroDivisionError: the except clause of line 130 returns []
MatchDivZero ==
    /\ InLoop
    /\ ~Degenerate(CurFill)
    /\ ~IsOpening(CurPos, CurSide)
    /\ PctDividesByZero(CurPos.side, CurPos.avg_entry, CurFill.px)
    /\ m' = [m EXCEPT !.pc = "returned", !.positions = CurPositions,
                      !.result = ErrorResult(m.round_trips)]
    /\ UNCHANGED <<w, trades, o, hist>>

\* line 128: return round_trips
MatchReturn ==
    /\ m.pc = "loop"
    /\ m.fi > Len(m.fills)
    /\ m' = [m EXCEPT !.pc = "returned", !.result = m.round_trips]
    /\ UNCHANGED <<w, trades, o, hist>>

(***************************************************************************)
(* Inputs of the matcher: sequences of up to MaxFills fills, 30 s apart,   *)
(* delivered oldest first or newest first.                                 *)
(***************************************************************************)
BareFills(coins, sides, sizes, prices) ==
    [coin : coins, side : sides, sz : sizes, px : prices]

SeqsUpTo(S, n) == UNION {[1..k -> S] : k \in 0..n}

\* position i of a list of n fills: time and fee added
Stamp(s, newestFirst) ==
    [i \in 1..Len(s) |->
        [coin |-> s[i].coin, side |-> s[i].side, sz |-> s[i].sz, px |-> s[i].px,
         time |-> IF newestFirst THEN SinceTs + 3 * (Len(s) - i)
                  ELSE SinceTs + 3 * (i - 1),
         fee |-> IF s[i].side = "A" THEN -1 ELSE 1]]

Stamped(S, n) == {Stamp(s, b) : s \in SeqsUpTo(S, n), b \in BOOLEAN}

MatchFillDomain ==
    BareFills({"BTC"}, {"B", "A"}, {1, 2}, {0, 1, 2})
        \cup BareFills({"BTC"}, {"X"}, {1}, {1})
        \cup BareFills({"ETH"}, {"B", "A"}, {1}, {1})
        \cup BareFills({""}, {"B"}, {1}, {1})
        \cup BareFills({"BTC"}, {"A"}, {0}, {1})

MatchInputs == Stamped(MatchFillDomain, MaxFills)

InitMatch ==
    /\ m = [MIdle EXCEPT !.pc = "fetch"]
    /\ w = [p \in Callers |-> WIdle]
    /\ trades = <<>>
    /\ o = OIdle
    /\ hist = <<>>

NextMatch ==
    \/ FetchFails
    \/ FetchFills(MatchInputs)
    \/ MatchSkip
    \/ MatchOpen
    \/ MatchClose
    \/ MatchDivZero
    \/ MatchReturn

\* one call of get_hl_closed_trades on any input of MatchInputs
SpecMatch == InitMatch /\ [][NextMatch]_vars


(***************************************************************************)
(* Properties of the matcher.                                              *)
(***************************************************************************)
RECURSIVE SumAmount(_)
SumAmount(entries) ==
    IF entries = <<>> THEN 0 ELSE Head(entries).amount + SumAmount(Tail(entries))

RECURSIVE SumCost(_)
SumCost(entries) ==
    IF entries = <<>> THEN 0
    ELSE Head(entries).price * Head(entries).amount + SumCost(Tail(entries))

\* this step appended a round trip: it processed a closing fill
ClosingStep == InLoop /\ m'.pc = "loop" /\ Len(m'.round_trips) = Len(m.round_trips) + 1
LastTrip(frame) == frame.round_trips[Len(frame.round_trips)]
OpenQty(positions, coin) ==
    IF coin \in DOMAIN positions THEN positions[coin].total_amount ELSE 0
\* the call stopped inside the loop, at fill m.fi: line 111 raised
StoppedInLoop == m.pc = "returned" /\ m.fi \in 1..Len(m.fills)

\* C3, as stated (its part about the round trips produced before the failing
\* fill): when line 111 divides by zero, the round trips already produced by
\* the earlier fills of the stream are still returned.
C3_DivZeroKeepsOtherTrips ==
    StoppedInLoop => \A k \in 1..Len(m.round_trips) : m.round_trips[k] \in Range(m.result)

\* C7: a closing fill's round trip has quantity min(fill quantity, open
\* quantity before the fill); when the fill quantity is >= the open quantity
\* the position is flat afterwards, and a fill met while the instrument is
\* flat opens a position of exactly its own quantity and emits nothing.
C7_CappedClose ==
    [][/\ ClosingStep =>
            LET open == OpenQty(m.positions, CurFill.coin)
                rt == LastTrip(m')
            IN  /\ rt.symbol = CurFill.coin
                /\ rt.quantity = (IF CurFill.sz <= open THEN CurFill.sz ELSE open)
                /\ CurFill.sz >= open => m'.positions[CurFill.coin] = FlatPos
                /\ CurFill.sz < open =>
                      m'.positions[CurFill.coin].total_amount = open - CurFill.sz
       /\ (InLoop /\ ~Degenerate(CurFill) /\ OpenQty(m.positions, CurFill.coin) = 0) =>
            /\ m'.round_trips = m.round_trips
            /\ m'.positions[CurFill.coin].total_amount = CurFill.sz
            /\ Len(m'.positions[CurFill.coin].entries) = 1
            /\ m'.positions[CurFill.coin].side =
                  (IF CurSide = "buy" THEN "long" ELSE "short")
      ]_vars

\* C7 witness: a closing fill larger than the open quantity was capped, and a
\* later fill of the instrument has opened a new position from flat.
C7_Witness ==
    /\ m.pc = "loop"
    /\ \E k \in 1..Len(m.round_trips) : \E j \in 1..(m.fi - 1) :
          LET rt == m.round_trips[k]
              f == m.fills[j]
          IN  /\ f.coin = rt.symbol
              /\ f.time = rt.exit_time
              /\ f.sz > rt.quantity
              /\ \E i \in (j + 1)..(m.fi - 1) : m.fills[i].coin = f.coin
              /\ OpenQty(m.positions, f.coin) > 0
              /\ Len(m.positions[f.coin].entries) = 1

\* C8, as stated: whenever an instrument's open quantity is positive, its
\* average entry price is the volume-weighted average price of all opening
\* fills since the position was last flat (the fills of entries).
C8_AvgIsVwapOfAllOpens ==
    \A c \in DOMAIN m.positions :
        LET pos == m.positions[c]
        IN  pos.total_amount > 0 =>
               pos.avg_entry.n * SumAmount(pos.entries)
                   = SumCost(pos.entries) * pos.avg_entry.d

\* no closing fill since the position was last flat: nothing of what the
\* entries opened has been closed
NoCloseSinceFlat(pos) == SumAmount(pos.entries) = pos.total_amount

\* C8, amended: whenever an instrument's open quantity is positive and no
\* closing fill has been processed since the position was last flat, its
\* average entry price is the volume-weighted average price of the opening
\* fills since the position was last flat.
C8_AvgIsVwapUntilClose ==
    \A c \in DOMAIN m.positions :
        LET pos == m.positions[c]
        IN  (pos.total_amount > 0 /\ NoCloseSinceFlat(pos)) =>
               pos.avg_entry.n * SumAmount(pos.entries)
                   = SumCost(pos.entries) * pos.avg_entry.d

\* C8 witness: a position built by two opening fills at different prices,
\* none of it closed.
C8_Witness ==
    \E c \in DOMAIN m.positions :
        LET pos == m.positions[c]
        IN  /\ pos.total_amount > 0
            /\ NoCloseSinceFlat(pos)
            /\ Len(pos.entries) >= 2
            /\ pos.entries[1].price # pos.entries[2].price
            /\ pos.entries[1].amount # pos.entries[2].amount

\* C9: a round trip's entry price is the position's average entry price at
\* the closing fill, its P&L is (exit - entry) * quantity on a long and
\* (entry - exit) * quantity on a short, and a short closed below its entry
\* price has positive P&L.
C9_RealizedPnl ==
    [][ClosingStep =>
          LET rt == LastTrip(m')
              pos == m.positions[CurFill.coin]
              e == rt.entry_price
              diff == rt.exit_price * e.d - e.n
          IN  /\ rt.side = pos.side
              /\ rt.side \in {"long", "short"}
              /\ e = pos.avg_entry
              /\ rt.exit_price = CurFill.px
              /\ rt.side = "long" => rt.pnl_usd.n * e.d = diff * rt.quantity * rt.pnl_usd.d
              /\ rt.side = "short" =>
                    rt.pnl_usd.n * e.d = (0 - diff) * rt.quantity * rt.pnl_usd.d
              /\ (rt.side = "short" /\ diff < 0) => rt.pnl_usd.n > 0
      ]_vars

\* C9 witness: a short opened from flat by a sell and closed at a lower price
\* has produced a round trip.
C9_Witness ==
    \E k \in 1..Len(m.round_trips) :
        LET rt == m.round_trips[k]
        IN  /\ rt.side = "short"
            /\ rt.exit_price * rt.entry_price.d < rt.entry_price.n
            /\ rt.pnl_usd.n > 0
            /\ \E j \in 1..Len(m.fills) :
                  /\ m.fills[j].time = rt.entry_time
                  /\ NormSide(m.fills[j].side) = "sell"


(***************************************************************************)
(* The writer alone: backfill_trades is called for account 1 on a list of  *)
(* up to MaxTrips round trips, and after it has returned it is called      *)
(* again on the same list in any order.                                    *)
(***************************************************************************)
\* a long round trip of quantity 2 closed at price 3
Trip(symbol, entry_price, entry_time, exit_time) ==
    [symbol |-> symbol, side |-> "long",
     entry_price |-> RInt(entry_price), exit_price |-> 3, quantity |-> 2,
     pnl_usd |-> Pnl("long", RInt(entry_price), 3, 2),
     pnl_pct |-> PnlPct("long", RInt(entry_price), 3),
     entry_time |-> entry_time, exit_time |-> exit_time, fee |-> 1]

\* entry times 0, 30 and 60 s after SinceTs, exit times 90 and 150 s after it;
\* the last trip carries the instant SinceTs as a timestamp in seconds
WriteTripDomain ==
    {Trip("BTC", ep, SinceTs + en, SinceTs + 9) : ep \in {2, 4}, en \in {0, 3, 6}}
      \cup {Trip("BTC", 2, SinceTs, SinceTs + 15),
            Trip("BTC", 3, SinceTs, SinceTs + 9),
            Trip("ETH", 2, SinceTs, SinceTs + 9),
            Trip("BTC", 2, SinceTs \div 1000, SinceTs \div 1000)}

WriteInputs == SeqsUpTo(WriteTripDomain, MaxTrips)

TierNames == {"standard", "vip", "gold"}

RowOf(user_id, rt) ==
    TradeRow(user_id, rt, RInt(0), ToDatetime(rt.entry_time), ToDatetime(rt.exit_time))

InitialLedgers ==
    {<<>>,
     <<RowOf(1, Trip("BTC", 4, SinceTs, SinceTs + 9)),
       RowOf(2, Trip("BTC", 4, SinceTs + 6, SinceTs + 15))>>}

Perms(s) ==
    {t \in [1..Len(s) -> Range(s)] :
        \E f \in [1..Len(s) -> 1..Len(s)] :
            /\ \A a, b \in 1..Len(s) : f[a] = f[b] => a = b
            /\ \A a \in 1..Len(s) : t[a] = s[f[a]]}

InitWrite ==
    /\ m = MIdle
    /\ w = [p \in Callers |-> WIdle]
    /\ trades \in InitialLedgers
    /\ o = OIdle
    /\ hist = <<>>

\* the first call
FirstRun ==
    /\ CallsSoFar = 0
    /\ \E list \in WriteInputs : \E tier \in TierNames :
          BackfillCall(1, 1, list, tier)
    /\ UNCHANGED <<m, trades, o>>

\* the iterations of call c that ended in the except clause of line 181
FailedIn(c) ==
    {k \in 1..Len(hist) : hist[k].call = c
                            /\ hist[k].what \in {"check_failed", "insert_failed"}}

\* the second call, once the first has returned without a failure: the same
\* round trips in any order
SecondRun ==
    /\ CallsSoFar = 1
    /\ w[1].pc = "returned"
    /\ FailedIn(1) = {}
    /\ \E list \in Perms(CallEvent(1).rt) : BackfillCall(1, 1, list, CallEvent(1).tier)
    /\ UNCHANGED <<m, trades, o>>

NextWrite ==
    \/ FirstRun
    \/ SecondRun
    \/ CheckExists(1)
    \/ CheckFails(1)
    \/ InsertRow(1)
    \/ InsertFails(1)
    \/ BackfillReturn(1)

SpecWrite == InitWrite /\ [][NextWrite]_vars


(***************************************************************************)
(* Properties of the writer.                                               *)
(***************************************************************************)
\* the history entries of call c, the call itself excluded, in order
RECURSIVE EventsOf(_, _)
EventsOf(h, c) ==
    IF h = <<>> THEN <<>>
    ELSE IF Head(h).call = c /\ Head(h).what # "call"
         THEN <<Head(h)>> \o EventsOf(Tail(h), c)
         ELSE EventsOf(Tail(h), c)

\* the latest call of caller p
CurCall(p) ==
    CHOOSE c \in 1..CallsSoFar :
        /\ CallEvent(c).caller = p
        /\ \A d \in (c + 1)..CallsSoFar : CallEvent(d).caller # p
InsertedIn(c) == {k \in 1..Len(hist) : hist[k].call = c /\ hist[k].what = "inserted"}
Failed(e) == e.what \in {"check_failed", "insert_failed"}
\* a row of the table within the 60 s tolerance of round trip rt of the account
HasRowFor(user_id, rt) ==
    \E k \in 1..Len(trades) :
        /\ trades[k].user_id = user_id
        /\ trades[k].symbol = rt.symbol
        /\ Abs(trades[k].opened_at - ToDatetime(rt.entry_time)) <= 59
        /\ Abs(trades[k].closed_at - ToDatetime(rt.exit_time)) <= 59

\* C1: after a run that completed without a failure, a second run for the
\* same account over the same round trips, in any order, inserts no row and
\* leaves the table as the first run left it.
C1_SecondRunInsertsNothing ==
    (CallsSoFar = 2 /\ FailedIn(1) = {}) =>
        /\ w[1].inserted = 0
        /\ InsertedIn(2) = {}
        /\ Len(trades) = CallEvent(2).rows
        /\ w[1].pc = "returned" => w[1].result[1] = 0

\* C1 witness: the first run inserted a row and skipped a round trip close to
\* it, and the second run, over the list in the other order, has returned.
C1_Witness ==
    /\ CallsSoFar = 2
    /\ w[1].pc = "returned"
    /\ FailedIn(1) = {} /\ FailedIn(2) = {}
    /\ InsertedIn(1) # {}
    /\ \E k \in 1..Len(hist) : hist[k].call = 1 /\ hist[k].what = "duplicate"
    /\ CallEvent(2).rt # CallEvent(1).rt
    /\ Len(EventsOf(hist, 2)) = 2

\* C4: when backfill_trades returns, every round trip of the list has been
\* processed once, in order; a round trip whose check or insert failed is
\* skipped, and every other one has a row within the tolerance in the table;
\* a failure never ends the loop early.
C4_FailureSkipsOneTrip ==
    \A p \in Callers :
        w[p].pc = "returned" =>
            LET evs == EventsOf(hist, CurCall(p))
                list == w[p].round_trips
            IN  /\ Len(evs) = Len(list)
                /\ \A k \in 1..Len(evs) :
                      /\ evs[k].i = k
                      /\ evs[k].rt = list[k]
                      /\ ~Failed(evs[k]) => HasRowFor(w[p].user_id, list[k])
                      /\ evs[k].what = "inserted" =>
                            /\ Len(trades) > evs[k].rows
                            /\ trades[evs[k].rows + 1].opened_at = ToDatetime(list[k].entry_time)
                            /\ trades[evs[k].rows + 1].symbol = list[k].symbol

\* C4 witness: the first round trip failed and the second one was inserted.
C4_Witness ==
    /\ w[1].pc = "returned"
    /\ LET evs == EventsOf(hist, CurCall(1))
       IN  /\ Len(evs) = 2
           /\ Failed(evs[1])
           /\ evs[2].what = "inserted"

\* the rows the table gained since call c was made (callers run one at a time)
RowsSince(c) == SubSeq(trades, CallEvent(c).rows + 1, Len(trades))

RECURSIVE SumProfit(_)
SumProfit(rows) ==
    IF rows = <<>> THEN RInt(0) ELSE RAdd(Head(rows).profit_usd, SumProfit(Tail(rows)))

RECURSIVE SumFee(_)
SumFee(rows) ==
    IF rows = <<>> THEN RInt(0) ELSE RAdd(Head(rows).fee_usd, SumFee(Tail(rows)))

\* C5: the triple returned is (rows inserted by this run, sum of their
\* profit_usd, sum of their fee_usd); skipped round trips add nothing.
C5_ReturnedTotals ==
    \A p \in Callers :
        w[p].pc = "returned" =>
            LET rows == RowsSince(CurCall(p))
            IN  /\ w[p].result[1] = Len(rows)
                /\ w[p].result[1] = Cardinality(InsertedIn(CurCall(p)))
                /\ w[p].result[2] = SumProfit(rows)
                /\ w[p].result[3] = SumFee(rows)

\* C5 witness: a run returned after one insert with a fee and one failed insert.
C5_Witness ==
    /\ w[1].pc = "returned"
    /\ w[1].result[1] = 1
    /\ RPos(w[1].result[3])
    /\ \E k \in 1..Len(hist) : hist[k].call = CurCall(1) /\ hist[k].what = "insert_failed"

\* the rate of the tier named in call c, 'standard' when the name is unknown
NamedRate(c) ==
    LET t == CallEvent(c).tier
    IN  FEE_TIERS[IF t \in DOMAIN FEE_TIERS THEN t ELSE "standard"].rate

\* C6: every row written by backfill_trades has fee 0 when its P&L is <= 0
\* and quantity * exit_price * rate of the named tier when its P&L is > 0.
C6_FeeRule ==
    \A k \in 1..Len(hist) :
        hist[k].what = "inserted" /\ Len(trades) > hist[k].rows =>
            LET row == trades[hist[k].rows + 1]
                rate == NamedRate(hist[k].call)
            IN  /\ row.profit_usd = hist[k].rt.pnl_usd
                /\ row.profit_usd.n <= 0 => row.fee_usd.n = 0
                /\ row.profit_usd.n > 0 =>
                      row.fee_usd.n * rate.d
                          = row.quantity * row.exit_price * rate.n * row.fee_usd.d

\* C6 witness: under a tier name that is not configured, a winning round trip
\* was written with a fee and a losing one without.
C6_Witness ==
    /\ CallsSoFar >= 1
    /\ CallEvent(1).tier \notin DOMAIN FEE_TIERS
    /\ \E a, b \in InsertedIn(1) :
          /\ trades[hist[a].rows + 1].profit_usd.n > 0
          /\ trades[hist[a].rows + 1].fee_usd.n > 0
          /\ trades[hist[b].rows + 1].profit_usd.n < 0
          /\ trades[hist[b].rows + 1].fee_usd.n = 0


(***************************************************************************)
(* reconcile_all_users (lines 187-233).  o.pc: "start", "user" (the loop   *)
(* body begins for users[o.ui], or the loop is over), "trades" (line 220   *)
(* awaits get_hl_closed_trades), "backfill" (line 225 awaits               *)
(* backfill_trades), "done" (line 233).  A user row carries id, fee_tier,  *)
(* hl_wallet_address ("" when NULL) and key: what decrypting and parsing   *)
(* hl_private_key_encrypted gives ("good", "undecryptable", "invalid").    *)
(***************************************************************************)
User == o.users[o.ui]
AtUser == o.pc = "user" /\ o.ui <= Len(o.users)

\* lines 31-40: the decrypted key, "" when decryption is not possible
decrypt_credential(key) == IF key = "undecryptable" THEN "" ELSE key

\* line 226: user['fee_tier'] or 'standard'
TierOrStandard(fee_tier) == IF fee_tier = "" THEN "standard" ELSE fee_tier

\* lines 193-202: the users with credentials are read
ReadUsers(userLists) ==
    /\ o.pc = "start"
    /\ \E us \in userLists : o' = [o EXCEPT !.pc = "user", !.users = us, !.ui = 1]
    /\ UNCHANGED <<m, w, trades, hist>>

\* lines 213, 218, 223 with the failure leaving the loop as an exception
ContinueAsRaise(frame) == [frame EXCEPT !.pc = "raised"]

\* lines 213, 218, 223: continue, the loop goes on to the next user
Continue(frame) == [frame EXCEPT !.pc = "user", !.ui = @ + 1, !.wallet_address = ""]

\* lines 208-213: no stored address and the key does not decrypt: continue
SkipUndecryptable ==
    /\ AtUser
    /\ User.hl_wallet_address = ""
    /\ decrypt_credential(User.key) = ""
    /\ o' = Continue(o)
    /\ UNCHANGED <<m, w, trades, hist>>

\* lines 214-218: Account.from_key raises: continue
SkipInvalidKey ==
    /\ AtUser
    /\ User.hl_wallet_address = ""
    /\ decrypt_credential(User.key) = "invalid"
    /\ o' = Continue(o)
    /\ UNCHANGED <<m, w, trades, hist>>

\* lines 208-220: the address is stored or derived; get_hl_closed_trades is called
CallGetTrades ==
    /\ AtUser
    /\ \/ User.hl_wallet_address # ""
       \/ decrypt_credential(User.key) = "good"
    /\ o' = [o EXCEPT !.pc = "trades",
                      !.wallet_address = IF User.hl_wallet_address # ""
                                         THEN User.hl_wallet_address ELSE "derived"]
    /\ m' = [MIdle EXCEPT !.pc = "fetch"]
    /\ UNCHANGED <<w, trades, hist>>

\* line 221 letting an empty list through
HasNoTripsNever(round_trips) == FALSE

\* line 221: not round_trips
HasNoTrips(round_trips) == round_trips = <<>>

\* lines 221-223: no closed trades found: continue
NoTrades ==
    /\ o.pc = "trades"
    /\ m.pc = "returned"
    /\ HasNoTrips(m.result)
    /\ o' = Continue(o)
    /\ m' = MIdle
    /\ UNCHANGED <<w, trades, hist>>

\* lines 225-227: backfill_trades is called on the round trips
CallBackfill ==
    /\ o.pc = "trades"
    /\ m.pc = "returned"
    /\ ~HasNoTrips(m.result)
    /\ BackfillCall(1, User.id, m.result, TierOrStandard(User.fee_tier))
    /\ o' = [o EXCEPT !.pc = "backfill"]
    /\ m' = MIdle
    /\ UNCHANGED trades

\* lines 229-230: the totals are printed; next user
AfterBackfill ==
    /\ o.pc = "backfill"
    /\ w[1].pc = "returned"
    /\ o' = [o EXCEPT !.pc = "user", !.ui = @ + 1, !.wallet_address = ""]
    /\ w' = [w EXCEPT ![1] = WIdle]
    /\ UNCHANGED <<m, trades, hist>>

\* lines 232-233: the loop is over
Complete ==
    /\ o.pc = "user"
    /\ o.ui > Len(o.users)
    /\ o' = [o EXCEPT !.pc = "done"]
    /\ UNCHANGED <<m, w, trades, hist>>

(***************************************************************************)
(* The batch run: two accounts, each with any of the credential states,    *)
(* and any answer of the venue out of PipelineInputs.                      *)
(***************************************************************************)
PipelineFillDomain ==
    {[coin |-> "BTC", side |-> "B", sz |-> 2, px |-> 1],
     [coin |-> "BTC", side |-> "A", sz |-> 1, px |-> 2],
     [coin |-> "BTC", side |-> "B", sz |-> 1, px |-> 0],
     [coin |-> "BTC", side |-> "A", sz |-> 0, px |-> 1]}

\* the venue answers newest first
PipelineInputs == {Stamp(s, TRUE) : s \in SeqsUpTo(PipelineFillDomain, MaxFills)}

UserRows(id) ==
    {[id |-> id, fee_tier |-> IF id = 1 THEN "" ELSE "vip",
      hl_wallet_address |-> "stored", key |-> "good"]}
      \cup {[id |-> id, fee_tier |-> IF id = 1 THEN "" ELSE "vip",
              hl_wallet_address |-> "", key |-> k] :
                 k \in {"good", "undecryptable", "invalid"}}

UserLists == {<<u1, u2>> : u1 \in UserRows(1), u2 \in UserRows(2)}

Init ==
    /\ m = MIdle
    /\ w = [p \in Callers |-> WIdle]
    /\ trades = <<>>
    /\ o = [OIdle EXCEPT !.pc = "start"]
    /\ hist = <<>>

Next ==
    \/ ReadUsers(UserLists)
    \/ SkipUndecryptable
    \/ SkipInvalidKey
    \/ CallGetTrades
    \/ FetchFails
    \/ FetchFills(PipelineInputs)
    \/ MatchSkip
    \/ MatchOpen
    \/ MatchClose
    \/ MatchDivZero
    \/ MatchReturn
    \/ NoTrades
    \/ CallBackfill
    \/ CheckExists(1)
    \/ CheckFails(1)
    \/ InsertRow(1)
    \/ InsertFails(1)
    \/ BackfillReturn(1)
    \/ AfterBackfill
    \/ Complete

Spec == Init /\ [][Next]_vars


(***************************************************************************)
(* Properties of the batch run.                                            *)
(***************************************************************************)
RowsOfUser(user_id) == {k \in 1..Len(trades) : trades[k].user_id = user_id}
CallsForUser(user_id) ==
    {k \in 1..Len(hist) : hist[k].what = "call" /\ hist[k].user = user_id}

\* C2, as stated: when backfill_trades has run on a table holding no row of
\* the account and nothing failed, it inserted as many rows as the list has
\* round trips (partial closes less than 60 s apart included).
C2_EveryTripGetsItsRow ==
    (/\ w[1].pc = "returned"
     /\ FailedIn(CurCall(1)) = {}
     /\ \A k \in 1..CallEvent(CurCall(1)).rows : trades[k].user_id # w[1].user_id)
        => /\ w[1].result[1] = Len(w[1].round_trips)
           /\ Cardinality(RowsOfUser(w[1].user_id)) = Len(w[1].round_trips)

\* C10: when the fetch of an account fails, get_hl_closed_trades returns the
\* empty list, backfill_trades is not called for that account and no row of
\* that account is written in the run.
C10_FailedFetchWritesNothing ==
    /\ \A k \in 1..Len(hist) :
          hist[k].what = "fetch_failed" =>
              /\ CallsForUser(hist[k].user) = {}
              /\ RowsOfUser(hist[k].user) = {}
    /\ (/\ Len(hist) > 0
        /\ hist[Len(hist)].what = "fetch_failed"
        /\ o.pc = "trades"
        /\ hist[Len(hist)].user = User.id) =>
          /\ m.pc = "returned"
          /\ m.result = <<>>

\* C10 witness: the fetch of the first account failed, and the run went on to
\* write rows for the second account and completed.
C10_Witness ==
    /\ o.pc = "done"
    /\ \E k \in 1..Len(hist) : hist[k].what = "fetch_failed" /\ hist[k].user = 1
    /\ RowsOfUser(1) = {}
    /\ RowsOfUser(2) # {}


(***************************************************************************)
(* get_hl_closed_trades on fills of any age in any order: timestamps       *)
(* before and inside the lookback window, equal timestamps included.       *)
(***************************************************************************)
OrderTimes == {SinceTs - 3, SinceTs, SinceTs + 3, SinceTs + 6}

OrderFillDomain ==
    {[coin |-> "BTC", side |-> sd, sz |-> 1, px |-> p, time |-> t,
      fee |-> IF sd = "A" THEN -1 ELSE 1] :
        sd \in {"B", "A"}, p \in {1, 2}, t \in OrderTimes}
      \cup {[coin |-> "BTC", side |-> "B", sz |-> 2, px |-> 1, time |-> SinceTs,
             fee |-> 1],
            [coin |-> "BTC", side |-> "B", sz |-> 1, px |-> 0, time |-> SinceTs,
             fee |-> 1],
            [coin |-> "BTC", side |-> "A", sz |-> 0, px |-> 1, time |-> SinceTs + 3,
             fee |-> -1]}

OrderInputs == SeqsUpTo(OrderFillDomain, MaxFills)

NextOrder ==
    \/ FetchFails
    \/ FetchFills(OrderInputs)
    \/ MatchSkip
    \/ MatchOpen
    \/ MatchClose
    \/ MatchDivZero
    \/ MatchReturn

\* one call of get_hl_closed_trades on any input of OrderInputs
SpecOrder == InitMatch /\ [][NextOrder]_vars

\* the fills of fs stamped before the start of the window / inside it
OldFills(fs) == {i \in 1..Len(fs) : fs[i].time < SinceTs}
InWindow(fs) == {i \in 1..Len(fs) : fs[i].time >= SinceTs}

\* every timestamp recorded in the positions and in the round trips
EntryStamps(positions) ==
    UNION {{positions[c].entries[k].timestamp : k \in 1..Len(positions[c].entries)} :
              c \in DOMAIN positions}
TripStamps(round_trips) ==
    UNION {{round_trips[k].entry_time, round_trips[k].exit_time} :
              k \in 1..Len(round_trips)}

\* C11: a fill stamped before the start of the lookback window is not among
\* the fills the loop processes, no entry of a position and no entry or exit
\* time of a round trip carries its timestamp, and the positions and round
\* trips together never account for more fills than the window holds.
C11_OldFillsContributeNothing ==
    m.pc \in {"loop", "returned"} =>
        /\ OldFills(m.fills) = {}
        /\ Len(m.fills) = Cardinality(InWindow(m.all_fills))
        /\ \A t \in EntryStamps(m.positions) \cup TripStamps(m.round_trips)
                       \cup TripStamps(m.result) : t >= SinceTs
        /\ \A c \in DOMAIN m.positions :
              Len(m.positions[c].entries) + Len(m.round_trips)
                  <= Cardinality({i \in InWindow(m.all_fills) :
                                      ~Degenerate(m.all_fills[i])})

\* C11 witness: the venue delivered an old opening fill together with fills
\* of the window, and the call returned a round trip made of the latter only.
C11_Witness ==
    /\ m.pc = "returned"
    /\ \E i \in OldFills(m.all_fills) : ~Degenerate(m.all_fills[i])
    /\ Len(m.result) = 1
    /\ Len(m.all_fills) = 3


Ascending(fs) == \A i, j \in 1..Len(fs) : i < j => fs[i].time <= fs[j].time
ExitAscending(rts) ==
    \A i, j \in 1..Len(rts) : i < j => rts[i].exit_time <= rts[j].exit_time

\* C12: whatever the order of the venue's answer, the loop runs over the
\* fills in ascending timestamp order, one after the other; a round trip is
\* only ever appended at the end of the list and carries the timestamp of the
\* fill being processed; the list returned is that list (or empty), so its
\* exit_time values are non-decreasing.
C12_ProcessedInTimeOrder ==
    /\ [](m.pc \in {"loop", "returned"} =>
            /\ Ascending(m.fills)
            /\ ExitAscending(m.round_trips)
            /\ ExitAscending(m.result)
            /\ (m.pc = "returned" => m.result \in {m.round_trips, <<>>}))
    /\ [][m.pc = "loop" =>
            /\ (m'.pc = "loop" => m'.fi = m.fi + 1)
            /\ (m'.round_trips # m.round_trips =>
                   /\ Len(m'.round_trips) = Len(m.round_trips) + 1
                   /\ SubSeq(m'.round_trips, 1, Len(m.round_trips)) = m.round_trips
                   /\ m'.round_trips[Len(m'.round_trips)].exit_time = CurFill.time)]_vars

\* C12 witness: the venue answered newest first, and the call returned two
\* round trips, the earlier close first.
C12_Witness ==
    /\ m.pc = "returned"
    /\ Len(m.result) = 2
    /\ m.result[1].exit_time < m.result[2].exit_time
    /\ \A i, j \in 1..Len(m.all_fills) :
          i < j => m.all_fills[i].time > m.all_fills[j].time


(***************************************************************************)
(* reconcile_single_user (lines 236-272), on the frame o: users holds the  *)
(* row fetchrow returned.  o.pc: "start", "user" (line 252), "trades"      *)
(* (line 261 awaits), "backfill" (line 267 awaits), "done" (the function   *)
(* returned), "raised" (an exception left the function).                   *)
(***************************************************************************)
\* lines 242-245: fetchrow finds the row of user_id
SingleFetchRow(rows) ==
    /\ o.pc = "start"
    /\ \E row \in rows : o' = [o EXCEPT !.pc = "user", !.users = <<row>>, !.ui = 1]
    /\ UNCHANGED <<m, w, trades, hist>>

\* lines 247-250: no such user
SingleNotFound ==
    /\ o.pc = "start"
    /\ o' = [o EXCEPT !.pc = "done"]
    /\ UNCHANGED <<m, w, trades, hist>>

\* lines 252-258: no stored address and the key does not decrypt: return
SingleUndecryptable ==
    /\ AtUser
    /\ User.hl_wallet_address = ""
    /\ decrypt_credential(User.key) = ""
    /\ o' = [o EXCEPT !.pc = "done"]
    /\ UNCHANGED <<m, w, trades, hist>>

\* line 259: Account.from_key raises, and nothing catches it
SingleInvalidKey ==
    /\ AtUser
    /\ User.hl_wallet_address = ""
    /\ decrypt_credential(User.key) = "invalid"
    /\ o' = [o EXCEPT !.pc = "raised"]
    /\ UNCHANGED <<m, w, trades, hist>>

\* lines 252-261: the address is stored or derived; get_hl_closed_trades is called
SingleCallGetTrades ==
    /\ AtUser
    /\ \/ User.hl_wallet_address # ""
       \/ decrypt_credential(User.key) = "good"
    /\ o' = [o EXCEPT !.pc = "trades",
                      !.wallet_address = IF User.hl_wallet_address # ""
                                         THEN User.hl_wallet_address ELSE "derived"]
    /\ m' = [MIdle EXCEPT !.pc = "fetch"]
    /\ UNCHANGED <<w, trades, hist>>

\* lines 262-265: no closed trades found: return
SingleNoTrades ==
    /\ o.pc = "trades"
    /\ m.pc = "returned"
    /\ HasNoTrips(m.result)
    /\ o' = [o EXCEPT !.pc = "done"]
    /\ m' = MIdle
    /\ UNCHANGED <<w, trades, hist>>

\* lines 267-269: backfill_trades is called on the round trips
SingleCallBackfill ==
    /\ o.pc = "trades"
    /\ m.pc = "returned"
    /\ ~HasNoTrips(m.result)
    /\ BackfillCall(1, User.id, m.result, TierOrStandard(User.fee_tier))
    /\ o' = [o EXCEPT !.pc = "backfill"]
    /\ m' = MIdle
    /\ UNCHANGED trades

\* lines 270-272: the totals are printed, the pool is closed
SingleAfterBackfill ==
    /\ o.pc = "backfill"
    /\ w[1].pc = "returned"
    /\ o' = [o EXCEPT !.pc = "done"]
    /\ w' = [w EXCEPT ![1] = WIdle]
    /\ UNCHANGED <<m, trades, hist>>

NextSingle ==
    \/ SingleFetchRow(UserRows(1) \cup UserRows(2))
    \/ SingleNotFound
    \/ SingleUndecryptable
    \/ SingleInvalidKey
    \/ SingleCallGetTrades
    \/ FetchFails
    \/ FetchFills(PipelineInputs)
    \/ MatchSkip
    \/ MatchOpen
    \/ MatchClose
    \/ MatchDivZero
    \/ MatchReturn
    \/ SingleNoTrades
    \/ SingleCallBackfill
    \/ CheckExists(1)
    \/ CheckFails(1)
    \/ InsertRow(1)
    \/ InsertFails(1)
    \/ BackfillReturn(1)
    \/ SingleAfterBackfill

\* one run of reconcile_single_user on an empty ledger
SpecSingle == Init /\ [][NextSingle]_vars

\* no stored address, and the key does not decrypt or is not a private key
CredentialFailure(user) ==
    /\ user.hl_wallet_address = ""
    /\ decrypt_credential(user.key) \in {"", "invalid"}

\* reconcile_all_users: an account with a credential failure is passed over
\* by a step that touches neither the venue nor the ledger.
BatchCredentialFailureSkips ==
    [][(AtUser /\ CredentialFailure(User)) =>
          /\ o'.pc = "user"
          /\ o'.ui = o.ui + 1
          /\ UNCHANGED <<m, w, trades, hist>>]_vars

\* C13, as stated, for reconcile_single_user: when the account has a
\* credential or address-derivation failure, the run ends normally (never by
\* an unhandled error) with no fetch made and no ledger row written.
C13_CredentialFailureSkips ==
    (o.pc # "start" /\ o.users # <<>> /\ CredentialFailure(o.users[1])) =>
        /\ o.pc \in {"user", "done"}
        /\ m = MIdle
        /\ w[1] = WIdle
        /\ trades = <<>>
        /\ hist = <<>>


(***************************************************************************)
(* The batch run with progress: reconcile_all_users is one sequential      *)
(* coroutine, so whenever it has a next step it takes one (every awaited   *)
(* call returns or raises).                                                *)
(***************************************************************************)
\* the venue answers newest first, with one fill less than in PipelineInputs
FairInputs == {Stamp(s, TRUE) : s \in SeqsUpTo(PipelineFillDomain, MaxFills - 1)}

NextFair ==
    \/ ReadUsers(UserLists)
    \/ SkipUndecryptable
    \/ SkipInvalidKey
    \/ CallGetTrades
    \/ FetchFails
    \/ FetchFills(FairInputs)
    \/ MatchSkip
    \/ MatchOpen
    \/ MatchClose
    \/ MatchDivZero
    \/ MatchReturn
    \/ NoTrades
    \/ CallBackfill
    \/ CheckExists(1)
    \/ CheckFails(1)
    \/ InsertRow(1)
    \/ InsertFails(1)
    \/ BackfillReturn(1)
    \/ AfterBackfill
    \/ Complete

FairSpec == Init /\ [][NextFair]_vars /\ WF_vars(NextFair)

\* C14: from any point of the run at account k, whatever happened to it, the
\* loop reaches the next account when there is one, and the run reaches the
\* completion step of lines 232-233.
C14_LaterAccountsProcessed ==
    /\ <>(o.pc = "done")
    /\ [](o.pc = "done" => o.ui = Len(o.users) + 1)
    /\ [][o.pc # "start" /\ o'.ui # o.ui =>
             /\ o'.ui = o.ui + 1
             /\ o'.pc = "user"]_vars

\* C14 witness: the first account had a credential failure, an insert of the
\* second account failed, and the run completed.
C14_Witness ==
    /\ o.pc = "done"
    /\ CredentialFailure(o.users[1])
    /\ \E k \in 1..Len(hist) : hist[k].what = "insert_failed" /\ hist[k].user = 2


(***************************************************************************)
(* Further properties of the matcher (SpecMatch: every fill the loop does  *)
(* not skip has a positive quantity).                                      *)
(***************************************************************************)
\* the position a fill of the given side, quantity, price and time opens
OpenedFromFlat(side, amount, price, timestamp) ==
    [entries |-> <<[timestamp |-> timestamp, price |-> price, amount |-> amount,
                    side |-> side]>>,
     side |-> IF side = "buy" THEN "long" ELSE "short",
     total_amount |-> amount,
     avg_entry |-> RInt(price)]

\* C15: after each fill every instrument's open quantity is >= 0; at 0 the
\* position is flat (no side, average entry 0, no entries), above 0 the side
\* is long or short and there are entries; and a fill met while the
\* instrument is flat leaves a position made of that fill alone.
C15_PositionInvariant ==
    /\ [](\A c \in DOMAIN m.positions :
             LET pos == m.positions[c]
             IN  /\ pos.total_amount >= 0
                 /\ pos.total_amount = 0 => pos = FlatPos
                 /\ pos.total_amount > 0 =>
                       /\ pos.side \in {"long", "short"}
                       /\ pos.entries # <<>>)
    /\ [][(InLoop /\ ~Degenerate(CurFill) /\ OpenQty(m.positions, CurFill.coin) = 0) =>
             m'.positions[CurFill.coin] =
                 OpenedFromFlat(CurSide, CurFill.sz, CurFill.px, CurFill.time)]_vars

\* C15 witness: a long position was closed to flat and the next fill of the
\* instrument opened a short position of its own quantity and price.
C15_Witness ==
    /\ m.pc = "loop"
    /\ m.fi = 4
    /\ Len(m.round_trips) = 1
    /\ m.round_trips[1].side = "long"
    /\ m.round_trips[1].symbol = "BTC"
    /\ m.round_trips[1].entry_price = RInt(1)
    /\ m.positions["BTC"] =
          OpenedFromFlat("sell", m.fills[3].sz, m.fills[3].px, m.fills[3].time)
    /\ m.fills[3].px = 2


(***************************************************************************)
(* get_hl_closed_trades on longer answers of one instrument: up to         *)
(* MaxFills + 1 fills, so that a position can be opened, partly closed,    *)
(* added to and closed again within one call.                              *)
(***************************************************************************)
DeepFillDomain ==
    BareFills({"BTC"}, {"B", "A"}, {1, 2}, {1})
        \cup BareFills({"BTC"}, {"B"}, {1}, {0})
        \cup BareFills({"BTC"}, {"A"}, {0}, {1})

DeepInputs == Stamped(DeepFillDomain, MaxFills + 1)

NextDeep ==
    \/ FetchFails
    \/ FetchFills(DeepInputs)
    \/ MatchSkip
    \/ MatchOpen
    \/ MatchClose
    \/ MatchDivZero
    \/ MatchReturn

\* one call of get_hl_closed_trades on any input of DeepInputs
SpecDeep == InitMatch /\ [][NextDeep]_vars

\* the smallest timestamp of a non-empty list of entries
MinStamp(entries) ==
    LET stamps == {entries[k].timestamp : k \in 1..Len(entries)}
    IN  CHOOSE t \in stamps : \A u \in stamps : t <= u

\* this step processed an opening fill
OpeningStep ==
    InLoop /\ ~Degenerate(CurFill) /\ m'.pc = "loop" /\ m'.round_trips = m.round_trips

\* C16: the entries of a position are its opening fills since it was last
\* flat (an opening fill is appended, a partial close leaves them, a full
\* close empties them); a round trip's entry_time is the smallest timestamp
\* among them and its exit_time the timestamp of the closing fill, so
\* entry_time <= exit_time.
C16_EntryAndExitTimes ==
    [][/\ OpeningStep =>
            m'.positions[CurFill.coin].entries =
                Append(CurPos.entries, [timestamp |-> CurFill.time, price |-> CurFill.px,
                                        amount |-> CurFill.sz, side |-> CurSide])
       /\ ClosingStep =>
            LET rt == LastTrip(m')
                after == m'.positions[CurFill.coin]
            IN  /\ CurPos.entries # <<>>
                /\ rt.entry_time = MinStamp(CurPos.entries)
                /\ rt.exit_time = CurFill.time
                /\ rt.entry_time <= rt.exit_time
                /\ after.entries = (IF after.total_amount = 0 THEN <<>>
                                    ELSE CurPos.entries)
      ]_vars

\* C16 witness: open 2, close 1, open 1, close 1: the second round trip,
\* emitted after a partial close and a further opening fill, has the first
\* fill's timestamp as entry_time and the fourth's as exit_time.
C16_Witness ==
    /\ m.pc = "loop"
    /\ m.fi = 5
    /\ Len(m.round_trips) = 2
    /\ Len(m.positions["BTC"].entries) = 2
    /\ m.positions["BTC"].entries[2].timestamp = m.fills[3].time
    /\ m.round_trips[2].entry_time = m.fills[1].time
    /\ m.round_trips[2].exit_time = m.fills[4].time
    /\ m.round_trips[1].exit_time = m.fills[2].time


(***************************************************************************)
(* Two runs of backfill_trades for account 1 on separate connections: each *)
(* awaited statement (the SELECT of line 156, the INSERT of line 166) is   *)
(* one step, and the steps of the two callers interleave in any way.  The  *)
(* table has no uniqueness constraint: an INSERT may succeed whatever the  *)
(* table holds.                                                            *)
(***************************************************************************)
\* two round trips of BTC 30 s apart at entry, and one of ETH
RaceTripDomain ==
    {Trip("BTC", 2, SinceTs, SinceTs + 9),
     Trip("BTC", 2, SinceTs + 3, SinceTs + 9),
     Trip("ETH", 2, SinceTs, SinceTs + 9)}

RaceInputs == SeqsUpTo(RaceTripDomain, MaxTrips)

\* caller p starts its run
RaceCall(p) ==
    /\ w[p].pc = "idle"
    /\ \E list \in RaceInputs : BackfillCall(p, 1, list, "standard")
    /\ UNCHANGED <<m, trades, o>>

NextRace ==
    \E p \in Callers :
        \/ RaceCall(p)
        \/ CheckExists(p)
        \/ CheckFails(p)
        \/ InsertRow(p)
        \/ InsertFails(p)
        \/ BackfillReturn(p)

SpecRace == InitWrite /\ [][NextRace]_vars

\* the dedup key of a row
DedupKey(row) == <<row.user_id, row.symbol, row.opened_at, row.closed_at>>
\* the pairs of rows of the table with the same dedup key
DupKeyPairs ==
    {pr \in (1..Len(trades)) \X (1..Len(trades)) :
        pr[1] < pr[2] /\ DedupKey(trades[pr[1]]) = DedupKey(trades[pr[2]])}

Called(p) == \E k \in 1..Len(hist) : hist[k].what = "call" /\ hist[k].caller = p
CallIdx(p) == CHOOSE k \in 1..Len(hist) : hist[k].what = "call" /\ hist[k].caller = p
\* the iterations caller p has completed so far
StepsOf(p) == {k \in 1..Len(hist) : hist[k].what # "call" /\ hist[k].caller = p}
\* the run of caller p was over, as far as the table goes, when q was called
RanBefore(p, q) ==
    /\ Called(p)
    /\ Called(q) => \A k \in StepsOf(p) : k < CallIdx(q)
Serialized == \E p, q \in Callers : p # q /\ RanBefore(p, q)

\* the caller whose INSERT wrote row k of the table (0: the row was there before)
WriterOf(k) ==
    IF \E e \in 1..Len(hist) : hist[e].what = "inserted" /\ hist[e].rows = k - 1
    THEN hist[CHOOSE e \in 1..Len(hist) :
                  hist[e].what = "inserted" /\ hist[e].rows = k - 1].caller
    ELSE 0

\* C17: two rows with the same dedup key exist only when the two runs
\* overlapped (neither was over when the other was called), and then the two
\* rows were written by different callers; when the runs are serialized no
\* two rows share a dedup key.
C17_DuplicateOnlyWhenInterleaved ==
    /\ Serialized => DupKeyPairs = {}
    /\ \A pr \in DupKeyPairs :
          /\ WriterOf(pr[1]) # 0
          /\ WriterOf(pr[2]) # 0
          /\ WriterOf(pr[1]) # WriterOf(pr[2])

\* C17 witness: both callers were given the same round trip on an empty
\* table, both existence checks ran before either INSERT, and the table
\* holds two rows with the same dedup key.
C17_Witness ==
    /\ Len(trades) = 2
    /\ DupKeyPairs = {<<1, 2>>}
    /\ w[1].round_trips = w[2].round_trips
    /\ Len(w[1].round_trips) = 1
    /\ Len(hist) = 4
    /\ hist[1].what = "call" /\ hist[2].what = "call"
    /\ hist[3].what = "inserted" /\ hist[4].what = "inserted"
    /\ hist[3].caller # hist[4].caller


(***************************************************************************)
(* The separation of the ledger's rows.                                    *)
(***************************************************************************)
\* two rows of one account and instrument whose entry times and whose exit
\* times are both less than 60 s apart
CloseRows(r1, r2) ==
    /\ r1.user_id = r2.user_id
    /\ r1.symbol = r2.symbol
    /\ Abs(r1.opened_at - r2.opened_at) < DedupSeconds
    /\ Abs(r1.closed_at - r2.closed_at) < DedupSeconds

Separated(table) ==
    \A k, l \in 1..Len(table) : k < l => ~CloseRows(table[k], table[l])

\* when iteration e of call c ran, the table held a row close to its round
\* trip: a row from before the call, or one the call inserted earlier
CloseRowBefore(c, e) ==
    LET row == RowOf(CallEvent(c).user, hist[e].rt)
    IN  \/ \E k \in 1..CallEvent(c).rows : CloseRows(trades[k], row)
        \/ \E d \in InsertedIn(c) :
              d < e /\ CloseRows(RowOf(CallEvent(c).user, hist[d].rt), row)

\* C18: the runs of SpecWrite are serialized and start from a separated
\* ledger; the ledger stays separated, and within a run a round trip is
\* skipped as a duplicate exactly when a row close to it was there before
\* the run or was inserted for a round trip earlier in the list: of several
\* mutually close round trips the first one processed is the one persisted.
C18_LedgerStaysSeparated ==
    /\ Separated(trades)
    /\ \A e \in 1..Len(hist) :
          hist[e].what \in {"inserted", "duplicate"} =>
              (hist[e].what = "duplicate" <=> CloseRowBefore(hist[e].call, e))

\* the same separation in the states of SpecRace where the two runs, of any
\* two lists, were serialized
SerializedRunsKeepSeparation == Serialized => Separated(trades)

\* C18 witness: a run over two mutually close round trips on an empty table,
\* the one with the later entry time first: the first one processed is the
\* one persisted, the other is skipped.
C18_Witness ==
    /\ CallsSoFar = 1
    /\ w[1].pc = "returned"
    /\ CallEvent(1).rows = 0
    /\ Len(w[1].round_trips) = 2
    /\ w[1].round_trips[1].entry_time > w[1].round_trips[2].entry_time
    /\ Len(trades) = 1
    /\ trades[1].opened_at = ToDatetime(w[1].round_trips[1].entry_time)
    /\ hist[Len(hist)].what = "duplicate"


(***************************************************************************)
(* Conservation of quantity in the matcher.                                *)
(***************************************************************************)
\* the quantity of instrument c in the round trips emitted so far
RECURSIVE TripQty(_, _)
TripQty(round_trips, c) ==
    IF round_trips = <<>> THEN 0
    ELSE (IF Head(round_trips).symbol = c THEN Head(round_trips).quantity ELSE 0)
             + TripQty(Tail(round_trips), c)

\* matched plus open quantity of instrument c
Accounted(frame, c) == TripQty(frame.round_trips, c) + OpenQty(frame.positions, c)

Instruments == {"BTC", "ETH"}

\* what the step on an opening fill does to the quantities
OpeningKeepsBooks ==
    /\ m'.round_trips = m.round_trips
    /\ \A c \in Instruments :
          Accounted(m', c) = Accounted(m, c) + (IF c = CurFill.coin THEN CurFill.sz ELSE 0)

\* what the step on a closing fill does to the quantities
ClosingKeepsBooks ==
    /\ Len(m'.round_trips) = Len(m.round_trips) + 1
    /\ SubSeq(m'.round_trips, 1, Len(m.round_trips)) = m.round_trips
    /\ LastTrip(m').symbol = CurFill.coin
    /\ LastTrip(m').quantity > 0
    /\ \A c \in Instruments : Accounted(m', c) = Accounted(m, c)

\* C19, as stated: every fill with a positive quantity that closes (is
\* against the open position) emits exactly one round trip with quantity > 0
\* and every opening fill emits none; an opening fill adds its quantity to
\* matched plus open quantity of its instrument and a closing fill leaves
\* that sum as it is, so the sum of opening quantities always equals matched
\* plus open quantity.
C19_QuantityConservation ==
    [][(InLoop /\ ~Degenerate(CurFill)) =>
          IF IsOpening(CurPos, CurSide) THEN OpeningKeepsBooks ELSE ClosingKeepsBooks]_vars

\* the same for every fill but the closing fill on which line 111 divides by
\* zero, where the call ends
QuantityConservedWithoutDivZero ==
    [][(InLoop /\ ~Degenerate(CurFill)) =>
          IF IsOpening(CurPos, CurSide) THEN OpeningKeepsBooks
          ELSE IF PctDividesByZero(CurPos.side, CurPos.avg_entry, CurFill.px)
               THEN m'.pc = "returned" /\ m'.result = <<>>
               ELSE ClosingKeepsBooks]_vars


(***************************************************************************)
(* Side tokens outside both vocabularies.                                  *)
(***************************************************************************)
\* the fill being processed has a side token that is neither buy nor sell
UnknownSide == InLoop /\ ~Degenerate(CurFill) /\ CurSide \notin {"buy", "sell"}

\* such a fill opens a short position of its own when the instrument is flat
UnknownOpensShort ==
    /\ m'.round_trips = m.round_trips
    /\ m'.positions[CurFill.coin] =
          OpenedFromFlat(CurSide, CurFill.sz, CurFill.px, CurFill.time)
    /\ m'.positions[CurFill.coin].side = "short"

\* such a fill closes the open position, long or short, and emits a round trip
UnknownCloses ==
    /\ ClosingStep
    /\ LastTrip(m').symbol = CurFill.coin
    /\ LastTrip(m').side = CurPos.side
    /\ LastTrip(m').exit_time = CurFill.time
    /\ LastTrip(m').quantity = Min(CurFill.sz, CurPos.total_amount)
    /\ m'.positions[CurFill.coin].total_amount = CurPos.total_amount - LastTrip(m').quantity

\* C20, as stated: a fill whose side token is in neither vocabulary opens a
\* short position when the instrument is flat and closes the open position,
\* long or short, emitting a round trip, otherwise; it is never skipped.
C20_UnknownSideToken ==
    [][UnknownSide =>
          IF OpenQty(m.positions, CurFill.coin) = 0 THEN UnknownOpensShort
          ELSE UnknownCloses]_vars

\* the same for every such fill but the closing fill on which line 111
\* divides by zero, where the call ends
UnknownSideWithoutDivZero ==
    [][UnknownSide =>
          IF OpenQty(m.positions, CurFill.coin) = 0 THEN UnknownOpensShort
          ELSE IF PctDividesByZero(CurPos.side, CurPos.avg_entry, CurFill.px)
               THEN m'.pc = "returned" /\ m'.result = <<>>
               ELSE UnknownCloses]_vars

============================================================================
